---- MODULE Spec2Model ----
(***************************************************************************)
(* A model of the BlockCall token server (src/server.js): the in-memory   *)
(* room registry, the room-name helpers, the token helper and the seven   *)
(* request handlers.  A handler runs to completion (Node's event loop, no *)
(* await in any handler), so each handler is one action.                  *)
(*                                                                         *)
(* Strings are sequences of UTF-16 code units (integers), so that         *)
(* toLowerCase, sort, substring and template concatenation are computed   *)
(* rather than assumed.  A missing or empty JSON field is the empty       *)
(* string <<>>: both are falsy for the handlers' presence checks, and     *)
(* neither equals a stored identifier.                                     *)
(*                                                                         *)
(* room.created (Date.now()) is left out: no handler branches on it.      *)
(***************************************************************************)
EXTENDS Integers, Sequences, FiniteSets, TLC

VARIABLES
    rooms,      \* src/server.js:14  const rooms = new Map()
    last,       \* the request handled last and the response it was given
    hist,       \* observer: per room id, "never" | "live" | "emptied"
    lastStart,  \* observer: the most recent successful start-call response
    w1, w2,     \* inputs of the room-name derivation (SpecP2P)
    fwd, rev,   \* createP2PRoomName(w1, w2) and (w2, w1), once computed
    pending,    \* SpecLoop: the requests that arrived together, by index
    rooms0,     \* SpecLoop: the registry when they arrived
    queue,      \* SpecLoop: the requests the event loop has not dispatched yet
    running,    \* SpecLoop: the handlers dispatched and not yet returned
    resp        \* SpecLoop: the response each request was given

loopVars == <<pending, rooms0, queue, running, resp>>

vars == <<rooms, last, hist, lastStart, w1, w2, fwd, rev, pending, rooms0, queue, running, resp>>

-----------------------------------------------------------------------------
(* Bounds and input sets *)

\* longest suffix appended to the base identifiers of SpecP2P
MaxSuffix == 1

\* String.prototype.substring(0, 8) in createP2PRoomName and generateToken
PrefixLen == 8

\* the identifiers clients send: "0xAb12345678" and "0xaC"
WalletA == <<48, 120, 65, 98, 49, 50, 51, 52, 53, 54, 55, 56>>
WalletB == <<48, 120, 97, 67>>

Wallets == {WalletA, WalletB}

\* the empty string, standing for an absent or empty field
Missing == <<>>

\* two codes generateRoomId can return: "K7Q2M9X4ZB" and "A1"
RoomK == <<75, 55, 81, 50, 77, 57, 88, 52, 90, 66>>
RoomA == <<65, 49>>

RoomIds == {RoomK, RoomA}

-----------------------------------------------------------------------------
(* Strings *)

Min(a, b) == IF a < b THEN a ELSE b

\* s.substring(0, n)
substring(s, n) == SubSeq(s, 1, Min(n, Len(s)))

\* s.toLowerCase() on ASCII code units
toLowerCase(s) == [i \in 1..Len(s) |-> IF s[i] >= 65 /\ s[i] <= 90 THEN s[i] + 32 ELSE s[i]]

\* s < t on strings: lexicographic by code unit, a proper prefix is smaller
RECURSIVE StrLess(_, _)
StrLess(s, t) ==
    IF Len(t) = 0 THEN FALSE
    ELSE IF Len(s) = 0 THEN TRUE
    ELSE IF s[1] # t[1] THEN s[1] < t[1]
    ELSE StrLess(Tail(s), Tail(t))

\* [x, y].sort(): default comparator, stable, two elements
sort2(x, y) == IF StrLess(y, x) THEN <<y, x>> ELSE <<x, y>>

\* "call-", "-", "meeting-"
StrCall == <<99, 97, 108, 108, 45>>
StrDash == <<45>>
StrMeeting == <<109, 101, 101, 116, 105, 110, 103, 45>>

-----------------------------------------------------------------------------
(* Helpers *)

\* what generateToken binds into the signed grant (at.toJwt() of lines 18-36)
generateToken(roomName, participantName, metadata) ==
    [ identity |-> participantName,
      name     |-> substring(participantName, PrefixLen),
      metadata |-> metadata,
      grant    |-> [ roomJoin |-> TRUE, room |-> roomName, canPublish |-> TRUE,
                     canSubscribe |-> TRUE, canPublishData |-> TRUE ] ]

\* the metadata objects the handlers pass; a flag the handler omits is "absent"
Metadata(walletAddress, isHost, isCaller, callType) ==
    [ walletAddress |-> walletAddress, isHost |-> isHost, isCaller |-> isCaller,
      callType |-> callType ]

\* a mutant: the two prefixes in argument order, without the sort
createP2PRoomNameUnsorted(wallet1, wallet2) ==
    StrCall \o substring(toLowerCase(wallet1), PrefixLen) \o StrDash
            \o substring(toLowerCase(wallet2), PrefixLen)

createP2PRoomName(wallet1, wallet2) ==
    LET sorted == sort2(toLowerCase(wallet1), toLowerCase(wallet2))
    IN  StrCall \o substring(sorted[1], PrefixLen) \o StrDash
                \o substring(sorted[2], PrefixLen)

\* `meeting-${roomId}`
MeetingName(roomId) == StrMeeting \o roomId

-----------------------------------------------------------------------------
(* The registry: a Map from room id to room record *)

has(m, k) == k \in DOMAIN m

\* a mutant: an id already registered keeps its room
setIfAbsent(m, k, v) == [x \in DOMAIN m \cup {k} |-> IF x = k /\ k \notin DOMAIN m THEN v ELSE m[x]]

set(m, k, v) == [x \in DOMAIN m \cup {k} |-> IF x = k THEN v ELSE m[x]]

\* a mutant: nothing is deleted
deleteNothing(m, k) == m

delete(m, k) == [x \in DOMAIN m \ {k} |-> m[x]]

includes(arr, v) == \E i \in 1..Len(arr) : arr[i] = v

\* arr.filter(p => p !== v)
RECURSIVE filterNot(_, _)
filterNot(arr, v) ==
    IF Len(arr) = 0 THEN <<>>
    ELSE IF arr[1] # v THEN <<arr[1]>> \o filterNot(Tail(arr), v)
    ELSE filterNot(Tail(arr), v)

-----------------------------------------------------------------------------
(* Requests and responses *)

\* a request/response pair with every field absent
Blank(op) ==
    [ op            |-> op,
      \* request body / params
      roomId        |-> Missing,
      walletAddress |-> Missing,
      callerWallet  |-> Missing,
      calleeWallet  |-> Missing,
      \* response
      status        |-> 0,
      error         |-> "",
      success       |-> FALSE,
      token         |-> <<>>,      \* <<t>> when the body carries token t
      resRoomId     |-> Missing,   \* body.roomId of create-room
      roomName      |-> Missing,   \* body.roomName of start-call / answer-call
      room          |-> <<>>,      \* <<r>> when the body carries room r
      activeRooms   |-> <<>>,      \* <<n>> in the health check
      \* what the handler did, in order
      generated     |-> Missing,   \* the id generateRoomId returned
      trace         |-> <<>> ]

\* res.json(body) without res.status(...) answers 200
Ok(r) == [r EXCEPT !.status = 200, !.success = TRUE]

\* res.status(code).json({ error })
Fail(r, code, message) == [r EXCEPT !.status = code, !.error = message]

\* error.message of whatever generateToken threw
TokenError == "token issuance failed"

-----------------------------------------------------------------------------
(* A handler in progress: the registry, the response being built, and      *)
(* whether an exception is on its way to the handler's catch block.  Each  *)
(* step is skipped once an exception is thrown, as the rest of a try block *)
(* is, and logs itself in res.trace.                                        *)

Begin(reg, req) == [rooms |-> reg, res |-> req, thrown |-> FALSE]

Log(c, what) == [c EXCEPT !.res.trace = Append(@, what)]

\* const roomId = generateRoomId(), with id the code it returned
GenerateRoomId(c, id) ==
    IF c.thrown THEN c ELSE [Log(c, "generateRoomId") EXCEPT !.res.generated = id]

\* rooms.set(k, v)
RoomsSet(c, k, v) ==
    IF c.thrown THEN c ELSE [Log(c, "rooms.set") EXCEPT !.rooms = set(c.rooms, k, v)]

\* rooms.delete(k)
RoomsDelete(c, k) ==
    IF c.thrown THEN c ELSE [Log(c, "rooms.delete") EXCEPT !.rooms = delete(c.rooms, k)]

\* a mutant: get-or-create, a missing room is registered for the requester
RoomsGetOrCreate(c, k) ==
    IF c.thrown THEN c
    ELSE IF k \in DOMAIN c.rooms \/ k = <<>> THEN [c EXCEPT !.res.trace = Append(@, "rooms.get")]
    ELSE [c EXCEPT !.res.trace = Append(@, "rooms.get"),
                   !.rooms = [x \in DOMAIN c.rooms \cup {k} |->
                                 IF x = k THEN [id |-> k, host |-> c.res.walletAddress,
                                                participants |-> <<c.res.walletAddress>>]
                                 ELSE c.rooms[x]]]

\* rooms.get(k): the lookup itself changes nothing
RoomsGet(c, k) ==
    IF c.thrown THEN c ELSE Log(c, "rooms.get")

\* const token = generateToken(...): returns when ok, throws otherwise
IssueToken(c, roomName, participantName, metadata, ok) ==
    IF c.thrown THEN c
    ELSE IF ok
         THEN [Log(c, "generateToken") EXCEPT
                  !.res.token = <<generateToken(roomName, participantName, metadata)>>]
         ELSE [Log(c, "generateToken") EXCEPT !.thrown = TRUE]

\* the closing res.json({ success: true, ... }) of a try block
Respond(c) ==
    IF c.thrown THEN c ELSE [c EXCEPT !.res = Ok(@)]

\* a mutant: no catch block, the exception leaves the handler
CatchNothing(c) == c

\* a mutant: the catch block rolls the room of this request back
CatchRollback(c) ==
    IF c.thrown
    THEN [c EXCEPT !.res = [@ EXCEPT !.status = 500, !.error = "token issuance failed"],
                   !.thrown = FALSE,
                   !.rooms = [x \in DOMAIN c.rooms \ {c.res.generated} |-> c.rooms[x]]]
    ELSE c

\* catch (error) { res.status(500).json({ error: error.message }) }
Catch(c) ==
    IF c.thrown THEN [c EXCEPT !.res = Fail(@, 500, TokenError), !.thrown = FALSE] ELSE c

\* what a handler leaves behind: the registry and the response
Done(c) == [rooms |-> c.rooms, res |-> c.res]

-----------------------------------------------------------------------------
(* The handlers, as functions of the registry and the request *)

\* GET /
Health(reg) ==
    Done([Log(Begin(reg, Blank("health")), "rooms.size") EXCEPT
             !.res.status = 200,
             !.res.activeRooms = <<Cardinality(DOMAIN reg)>>])

\* const room = { id, host, participants, created }
NewRoom(roomId, walletAddress) ==
    [id |-> roomId, host |-> walletAddress, participants |-> <<walletAddress>>]

\* a mutant: the token is issued first, the room registered only once it is
CreateRoomHandlerTokenFirst(reg, walletAddress, roomId, ok) ==
    LET req == [Blank("create-room") EXCEPT !.walletAddress = walletAddress]
        c0  == Begin(reg, req)
    IN  IF walletAddress = Missing
        THEN Done([c0 EXCEPT !.res = Fail(@, 400, "Wallet address required")])
        ELSE LET c1 == GenerateRoomId(c0, roomId)
                 c2 == IssueToken(c1, MeetingName(roomId), walletAddress,
                                  Metadata(walletAddress, "true", "absent", "group"), ok)
                 c3 == RoomsSet(c2, roomId, NewRoom(roomId, walletAddress))
                 c4 == IF c3.thrown THEN c3 ELSE [c3 EXCEPT !.res.resRoomId = roomId]
             IN  Done(Catch(Respond(c4)))

\* POST /api/create-room; roomId is what generateRoomId returns
CreateRoomHandler(reg, walletAddress, roomId, ok) ==
    LET req == [Blank("create-room") EXCEPT !.walletAddress = walletAddress]
        c0  == Begin(reg, req)
    IN  IF walletAddress = Missing
        THEN Done([c0 EXCEPT !.res = Fail(@, 400, "Wallet address required")])
        ELSE LET c1 == GenerateRoomId(c0, roomId)
                 c2 == RoomsSet(c1, roomId, NewRoom(roomId, walletAddress))
                 c3 == IssueToken(c2, MeetingName(roomId), walletAddress,
                                  Metadata(walletAddress, "true", "absent", "group"), ok)
                 c4 == IF c3.thrown THEN c3 ELSE [c3 EXCEPT !.res.resRoomId = roomId]
             IN  Done(Catch(Respond(c4)))

\* a mutant: push without the includes test
AddParticipantAlways(c, roomId, walletAddress) ==
    IF c.thrown THEN c
    ELSE [Log(c, "participants.push") EXCEPT
             !.rooms[roomId].participants = Append(@, walletAddress)]

\* if (!room.participants.includes(w)) room.participants.push(w)
AddParticipant(c, roomId, walletAddress) ==
    IF c.thrown \/ includes(c.rooms[roomId].participants, walletAddress)
    THEN c
    ELSE [Log(c, "participants.push") EXCEPT
             !.rooms[roomId].participants = Append(@, walletAddress)]

\* room: { id, host, participantCount } of the join-room and get-room bodies
RoomInfo(room) ==
    [id |-> room.id, host |-> room.host, participantCount |-> Len(room.participants)]

\* a mutant: the token is issued first, the participant added only once it is
JoinRoomHandlerTokenFirst(reg, roomId, walletAddress, ok) ==
    LET req == [Blank("join-room") EXCEPT !.roomId = roomId,
                                          !.walletAddress = walletAddress]
        c0  == Begin(reg, req)
    IN  IF roomId = Missing \/ walletAddress = Missing
        THEN Done([c0 EXCEPT !.res = Fail(@, 400, "Room ID and wallet address required")])
        ELSE LET c1 == RoomsGet(c0, roomId)
             IN  IF ~has(c1.rooms, roomId)
                 THEN Done([c1 EXCEPT !.res = Fail(@, 404, "Room not found")])
                 ELSE LET c2 == IssueToken(c1, MeetingName(roomId), walletAddress,
                                    Metadata(walletAddress, "false", "absent", "group"), ok)
                          c3 == AddParticipant(c2, roomId, walletAddress)
                          c4 == IF c3.thrown THEN c3
                                ELSE [c3 EXCEPT !.res.room = <<RoomInfo(c3.rooms[roomId])>>]
                      IN  Done(Catch(Respond(c4)))

\* a mutant: && for || in the presence check
JoinRoomHandlerAnd(reg, roomId, walletAddress, ok) ==
    LET req == [Blank("join-room") EXCEPT !.roomId = roomId,
                                          !.walletAddress = walletAddress]
        c0  == Begin(reg, req)
    IN  IF roomId = Missing /\ walletAddress = Missing
        THEN Done([c0 EXCEPT !.res = Fail(@, 400, "Room ID and wallet address required")])
        ELSE LET c1 == RoomsGet(c0, roomId)
             IN  IF ~has(c1.rooms, roomId)
                 THEN Done([c1 EXCEPT !.res = Fail(@, 404, "Room not found")])
                 ELSE LET c2 == AddParticipant(c1, roomId, walletAddress)
                          c3 == IssueToken(c2, MeetingName(roomId), walletAddress,
                                    Metadata(walletAddress, "false", "absent", "group"), ok)
                          c4 == IF c3.thrown THEN c3
                                ELSE [c3 EXCEPT !.res.room = <<RoomInfo(c3.rooms[roomId])>>]
                      IN  Done(Catch(Respond(c4)))

\* POST /api/join-room
JoinRoomHandler(reg, roomId, walletAddress, ok) ==
    LET req == [Blank("join-room") EXCEPT !.roomId = roomId,
                                          !.walletAddress = walletAddress]
        c0  == Begin(reg, req)
    IN  IF roomId = Missing \/ walletAddress = Missing
        THEN Done([c0 EXCEPT !.res = Fail(@, 400, "Room ID and wallet address required")])
        ELSE LET c1 == RoomsGet(c0, roomId)
             IN  IF ~has(c1.rooms, roomId)
                 THEN Done([c1 EXCEPT !.res = Fail(@, 404, "Room not found")])
                 ELSE LET c2 == AddParticipant(c1, roomId, walletAddress)
                          c3 == IssueToken(c2, MeetingName(roomId), walletAddress,
                                    Metadata(walletAddress, "false", "absent", "group"), ok)
                          c4 == IF c3.thrown THEN c3
                                ELSE [c3 EXCEPT !.res.room = <<RoomInfo(c3.rooms[roomId])>>]
                      IN  Done(Catch(Respond(c4)))

\* a mutant: the call is tracked in the registry under its room name
StartCallHandlerRegisters(reg, callerWallet, calleeWallet, ok) ==
    LET req == [Blank("start-call") EXCEPT !.callerWallet = callerWallet,
                                           !.calleeWallet = calleeWallet]
        c0  == Begin(reg, req)
    IN  IF callerWallet = Missing \/ calleeWallet = Missing
        THEN Done([c0 EXCEPT !.res = Fail(@, 400, "Both wallet addresses required")])
        ELSE LET roomName == createP2PRoomName(callerWallet, calleeWallet)
                 c1 == RoomsSet(c0, roomName, NewRoom(roomName, callerWallet))
                 c2 == IssueToken(c1, roomName, callerWallet,
                                  Metadata(callerWallet, "absent", "true", "p2p"), ok)
                 c3 == IF c2.thrown THEN c2 ELSE [c2 EXCEPT !.res.roomName = roomName]
             IN  Done(Catch(Respond(c3)))

\* POST /api/start-call
StartCallHandler(reg, callerWallet, calleeWallet, ok) ==
    LET req == [Blank("start-call") EXCEPT !.callerWallet = callerWallet,
                                           !.calleeWallet = calleeWallet]
        c0  == Begin(reg, req)
    IN  IF callerWallet = Missing \/ calleeWallet = Missing
        THEN Done([c0 EXCEPT !.res = Fail(@, 400, "Both wallet addresses required")])
        ELSE LET roomName == createP2PRoomName(callerWallet, calleeWallet)
                 c1 == IssueToken(c0, roomName, callerWallet,
                                  Metadata(callerWallet, "absent", "true", "p2p"), ok)
                 c2 == IF c1.thrown THEN c1 ELSE [c1 EXCEPT !.res.roomName = roomName]
             IN  Done(Catch(Respond(c2)))

\* a mutant: the callee's own view, its prefix first and no sort
AnswerRoomNameCalleeFirst(callerWallet, calleeWallet) ==
    createP2PRoomNameUnsorted(calleeWallet, callerWallet)

\* const roomName = createP2PRoomName(callerWallet, calleeWallet) of answer-call
AnswerRoomName(callerWallet, calleeWallet) ==
    createP2PRoomName(callerWallet, calleeWallet)

\* POST /api/answer-call
AnswerCallHandler(reg, callerWallet, calleeWallet, ok) ==
    LET req == [Blank("answer-call") EXCEPT !.callerWallet = callerWallet,
                                            !.calleeWallet = calleeWallet]
        c0  == Begin(reg, req)
    IN  IF callerWallet = Missing \/ calleeWallet = Missing
        THEN Done([c0 EXCEPT !.res = Fail(@, 400, "Both wallet addresses required")])
        ELSE LET roomName == AnswerRoomName(callerWallet, calleeWallet)
                 c1 == IssueToken(c0, roomName, calleeWallet,
                                  Metadata(calleeWallet, "absent", "false", "p2p"), ok)
                 c2 == IF c1.thrown THEN c1 ELSE [c1 EXCEPT !.res.roomName = roomName]
             IN  Done(Catch(Respond(c2)))

\* a mutant: splice(indexOf(w), 1), which drops the last element when w is absent
RemoveParticipantSplice(c, roomId, walletAddress) ==
    LET arr == c.rooms[roomId].participants
    IN  [Log(c, "participants.splice") EXCEPT
            !.rooms[roomId].participants =
                IF includes(arr, walletAddress) THEN filterNot(arr, walletAddress)
                ELSE SubSeq(arr, 1, Len(arr) - 1)]

\* a mutant: when the host leaves, the first remaining participant becomes host
RemoveParticipantHandover(c, roomId, walletAddress) ==
    LET rest == filterNot(c.rooms[roomId].participants, walletAddress)
        c1   == [c EXCEPT !.res.trace = Append(@, "participants.filter"),
                          !.rooms[roomId].participants = rest]
    IN  IF c.rooms[roomId].host = walletAddress /\ Len(rest) > 0
        THEN [c1 EXCEPT !.rooms[roomId].host = rest[1]]
        ELSE c1

\* room.participants = room.participants.filter(p => p !== walletAddress)
RemoveParticipant(c, roomId, walletAddress) ==
    [Log(c, "participants.filter") EXCEPT
        !.rooms[roomId].participants = filterNot(@, walletAddress)]

\* a mutant: the emptiness test never fires
DeleteIfEmptyNever(c, roomId) == c

\* a mutant: the emptiness test looks the room up again
DeleteIfEmptyRefetch(c, roomId) ==
    LET c1 == [c EXCEPT !.res.trace = Append(@, "rooms.get")]
    IN  IF Len(c1.rooms[roomId].participants) = 0
        THEN [c1 EXCEPT !.res.trace = Append(@, "rooms.delete"),
                        !.rooms = [x \in DOMAIN c1.rooms \ {roomId} |-> c1.rooms[x]]]
        ELSE c1

\* if (room.participants.length === 0) rooms.delete(roomId)
DeleteIfEmpty(c, roomId) ==
    IF Len(c.rooms[roomId].participants) = 0 THEN RoomsDelete(c, roomId) ELSE c

\* POST /api/leave-room
LeaveRoomHandler(reg, roomId, walletAddress) ==
    LET req == [Blank("leave-room") EXCEPT !.roomId = roomId,
                                           !.walletAddress = walletAddress]
        c0  == RoomsGet(Begin(reg, req), roomId)
        c1  == IF has(c0.rooms, roomId)
               THEN DeleteIfEmpty(RemoveParticipant(c0, roomId, walletAddress), roomId)
               ELSE c0
    IN  Done(Catch(Respond(c1)))

\* GET /api/room/:roomId
GetRoomHandler(reg, roomId) ==
    LET req == [Blank("get-room") EXCEPT !.roomId = roomId]
        c0  == RoomsGet(Begin(reg, req), roomId)
    IN  IF ~has(c0.rooms, roomId)
        THEN Done([c0 EXCEPT !.res = Fail(@, 404, "Room not found")])
        ELSE Done(Catch(Respond([c0 EXCEPT !.res.room = <<RoomInfo(c0.rooms[roomId])>>])))

-----------------------------------------------------------------------------
(* Observers: history the claims speak about, computed from the request   *)
(* and the registry before it, never from what the handler did to it.      *)

Range(f) == {f[i] : i \in DOMAIN f}

\* what clients send: a room id is registered or not according to the registry
ReqRoomIds == RoomIds \cup {Missing}
ReqWallets == Wallets \cup {Missing}

\* a leave-room by the only identifier in the participants list of a registered room
SoleLeave(reg, res, id) ==
    /\ res.op = "leave-room"
    /\ res.roomId = id
    /\ id \in DOMAIN reg
    /\ Range(reg[id].participants) = {res.walletAddress}

\* "live" from a create-room that drew the id, "emptied" from a sole leave
HistNext(reg, res) ==
    [id \in RoomIds |->
        IF res.op = "create-room" /\ res.generated = id THEN "live"
        ELSE IF SoleLeave(reg, res, id) THEN "emptied"
        ELSE hist[id]]

\* the pair and the room name of the latest start-call that answered 200
StartNext(res) ==
    IF res.op = "start-call" /\ res.status = 200
    THEN <<[callerWallet |-> res.callerWallet, calleeWallet |-> res.calleeWallet,
            roomName |-> res.roomName]>>
    ELSE lastStart

\* one request handled: o is the handler's outcome on the current registry
Handle(o) ==
    /\ rooms' = o.rooms
    /\ last' = o.res
    /\ hist' = HistNext(rooms, o.res)
    /\ lastStart' = StartNext(o.res)
    /\ UNCHANGED <<w1, w2, fwd, rev>>
    /\ UNCHANGED loopVars

-----------------------------------------------------------------------------
(* The server *)

Init ==
    /\ rooms = <<>>
    /\ last = Blank("none")
    /\ hist = [id \in RoomIds |-> "never"]
    /\ lastStart = <<>>
    /\ w1 = Missing /\ w2 = Missing /\ fwd = <<>> /\ rev = <<>>
    /\ pending = <<>> /\ rooms0 = <<>> /\ queue = {} /\ running = <<>> /\ resp = <<>>

HealthCheck == Handle(Health(rooms))

CreateRoom ==
    \E walletAddress \in ReqWallets, roomId \in RoomIds, ok \in BOOLEAN :
        Handle(CreateRoomHandler(rooms, walletAddress, roomId, ok))

JoinRoom ==
    \E roomId \in ReqRoomIds, walletAddress \in ReqWallets, ok \in BOOLEAN :
        Handle(JoinRoomHandler(rooms, roomId, walletAddress, ok))

StartCall ==
    \E callerWallet \in ReqWallets, calleeWallet \in ReqWallets, ok \in BOOLEAN :
        Handle(StartCallHandler(rooms, callerWallet, calleeWallet, ok))

AnswerCall ==
    \E callerWallet \in ReqWallets, calleeWallet \in ReqWallets, ok \in BOOLEAN :
        Handle(AnswerCallHandler(rooms, callerWallet, calleeWallet, ok))

LeaveRoom ==
    \E roomId \in ReqRoomIds, walletAddress \in ReqWallets :
        Handle(LeaveRoomHandler(rooms, roomId, walletAddress))

GetRoom ==
    \E roomId \in RoomIds :
        Handle(GetRoomHandler(rooms, roomId))

Next ==
    \/ HealthCheck
    \/ CreateRoom
    \/ JoinRoom
    \/ StartCall
    \/ AnswerCall
    \/ LeaveRoom
    \/ GetRoom

Spec == Init /\ [][Next]_vars

-----------------------------------------------------------------------------
(* One meeting and three identifiers: the group-room handlers with a third *)
(* client, so that a room can keep two participants after one has left.    *)

\* "0xbD"
WalletC == <<48, 120, 98, 68>>

Wallets3 == Wallets \cup {WalletC}

TrioCreate ==
    \E walletAddress \in Wallets3 \cup {Missing}, ok \in BOOLEAN :
        Handle(CreateRoomHandler(rooms, walletAddress, RoomA, ok))

TrioJoin ==
    \E roomId \in {RoomA, Missing}, walletAddress \in Wallets3 \cup {Missing}, ok \in BOOLEAN :
        Handle(JoinRoomHandler(rooms, roomId, walletAddress, ok))

TrioLeave ==
    \E roomId \in {RoomA, Missing}, walletAddress \in Wallets3 \cup {Missing} :
        Handle(LeaveRoomHandler(rooms, roomId, walletAddress))

TrioGet == Handle(GetRoomHandler(rooms, RoomA))

NextTrio ==
    \/ TrioCreate
    \/ TrioJoin
    \/ TrioLeave
    \/ TrioGet

SpecTrio == Init /\ [][NextTrio]_vars

-----------------------------------------------------------------------------
(* The room-name derivation on its own: both argument orders of one pair *)

\* "a", "A", "1"
Alphabet == {97, 65, 49}

Suffixes == UNION {[1..n -> Alphabet] : n \in 0..MaxSuffix}

\* "", "0xAb", "0xaB" and the eight characters "0xaBcDeF"
Bases == {<<>>, <<48, 120, 65, 98>>, <<48, 120, 97, 66>>,
          <<48, 120, 97, 66, 99, 68, 101, 70>>}

P2PIds == {b \o x : b \in Bases, x \in Suffixes}

InitP2P ==
    /\ rooms = <<>>
    /\ last = Blank("none")
    /\ hist = [id \in RoomIds |-> "never"]
    /\ lastStart = <<>>
    /\ w1 \in P2PIds
    /\ w2 \in P2PIds
    /\ fwd = <<>>
    /\ rev = <<>>
    /\ pending = <<>> /\ rooms0 = <<>> /\ queue = {} /\ running = <<>> /\ resp = <<>>

Derive ==
    /\ fwd = <<>>
    /\ fwd' = createP2PRoomName(w1, w2)
    /\ UNCHANGED <<rooms, last, hist, lastStart, w1, w2, rev, loopVars>>

DeriveSwapped ==
    /\ rev = <<>>
    /\ rev' = createP2PRoomName(w2, w1)
    /\ UNCHANGED <<rooms, last, hist, lastStart, w1, w2, fwd, loopVars>>

NextP2P ==
    \/ Derive
    \/ DeriveSwapped

SpecP2P == InitP2P /\ [][NextP2P]_vars

-----------------------------------------------------------------------------
(* The event loop: requests that arrive together, handled statement by     *)
(* statement.  A handler is a plain synchronous callback, so the loop takes *)
(* the next request only when no handler is on the stack.                   *)

\* how many requests arrive together
MaxPending == 2

Request(op, roomId, walletAddress, callerWallet, calleeWallet, gen, ok) ==
    [ op |-> op, roomId |-> roomId, walletAddress |-> walletAddress,
      callerWallet |-> callerWallet, calleeWallet |-> calleeWallet,
      gen |-> gen,      \* what generateRoomId returns to the request
      ok  |-> ok ]      \* whether generateToken returns to it

\* requests around one meeting and one call, each endpoint and outcome among them
LoopRequests ==
    {Request("create-room", Missing, WalletB, Missing, Missing, RoomA, ok) : ok \in BOOLEAN}
    \cup {Request("create-room", Missing, Missing, Missing, Missing, RoomA, TRUE)}
    \cup {Request("join-room", RoomA, WalletB, Missing, Missing, Missing, ok) : ok \in BOOLEAN}
    \cup {Request("join-room", RoomA, WalletA, Missing, Missing, Missing, TRUE)}
    \cup {Request("leave-room", RoomA, w, Missing, Missing, Missing, TRUE) : w \in Wallets}
    \cup {Request("get-room", RoomA, Missing, Missing, Missing, Missing, TRUE)}
    \cup {Request("health", Missing, Missing, Missing, Missing, Missing, TRUE)}
    \cup {Request(op, Missing, Missing, WalletA, WalletB, Missing, ok) :
             op \in {"start-call", "answer-call"}, ok \in BOOLEAN}

\* the requests served before: WalletA opens the meeting, WalletB joins it
EarlierRequests ==
    { Request("create-room", Missing, WalletA, Missing, Missing, RoomA, TRUE),
      Request("join-room", RoomA, WalletB, Missing, Missing, Missing, TRUE) }

\* the handler of request q, run in one piece on registry reg
Atomic(q, reg) ==
    CASE q.op = "create-room" -> CreateRoomHandler(reg, q.walletAddress, q.gen, q.ok)
      [] q.op = "join-room"   -> JoinRoomHandler(reg, q.roomId, q.walletAddress, q.ok)
      [] q.op = "leave-room"  -> LeaveRoomHandler(reg, q.roomId, q.walletAddress)
      [] q.op = "get-room"    -> GetRoomHandler(reg, q.roomId)
      [] q.op = "start-call"  -> StartCallHandler(reg, q.callerWallet, q.calleeWallet, q.ok)
      [] q.op = "answer-call" -> AnswerCallHandler(reg, q.callerWallet, q.calleeWallet, q.ok)
      [] OTHER                -> Health(reg)

\* a step's result: the handler's context after it, and whether it returned
Goes(c)    == [c |-> c, fin |-> FALSE]
Returns(c) == [c |-> c, fin |-> TRUE]

\* create-room, lines 64-68 and 71-81 / 84-88 / 92-102
CreateStep(q, pc, c) ==
    CASE pc = 1 ->
            IF q.walletAddress = Missing
            THEN Returns([c EXCEPT !.res = Fail(@, 400, "Wallet address required")])
            ELSE Goes(RoomsSet(GenerateRoomId(c, q.gen), q.gen,
                               NewRoom(q.gen, q.walletAddress)))
      [] pc = 2 ->
            Goes(IssueToken(c, MeetingName(q.gen), q.walletAddress,
                            Metadata(q.walletAddress, "true", "absent", "group"), q.ok))
      [] OTHER ->
            Returns(Catch(Respond(IF c.thrown THEN c
                                  ELSE [c EXCEPT !.res.resRoomId = q.gen])))

\* join-room, lines 108-119 / 122-124 / 127-149.  `room` is the object found
\* at line 115: a write to it reaches the registry only while it is registered.
JoinStep(q, pc, c) ==
    CASE pc = 1 ->
            IF q.roomId = Missing \/ q.walletAddress = Missing
            THEN Returns([c EXCEPT !.res = Fail(@, 400, "Room ID and wallet address required")])
            ELSE IF ~has(c.rooms, q.roomId)
                 THEN Returns([RoomsGet(c, q.roomId) EXCEPT !.res = Fail(@, 404, "Room not found")])
                 ELSE Goes(RoomsGet(c, q.roomId))
      [] pc = 2 ->
            Goes(IF has(c.rooms, q.roomId) THEN AddParticipant(c, q.roomId, q.walletAddress)
                 ELSE c)
      [] OTHER ->
            LET c3 == IssueToken(c, MeetingName(q.roomId), q.walletAddress,
                                 Metadata(q.walletAddress, "false", "absent", "group"), q.ok)
                c4 == IF c3.thrown \/ ~has(c3.rooms, q.roomId) THEN c3
                      ELSE [c3 EXCEPT !.res.room = <<RoomInfo(c3.rooms[q.roomId])>>]
            IN  Returns(Catch(Respond(c4)))

\* leave-room, lines 225-227 / 228 / 230-243
LeaveStep(q, pc, c) ==
    CASE pc = 1 ->
            IF has(c.rooms, q.roomId) THEN Goes(RoomsGet(c, q.roomId))
            ELSE Returns(Catch(Respond(RoomsGet(c, q.roomId))))
      [] pc = 2 ->
            Goes(IF has(c.rooms, q.roomId) THEN RemoveParticipant(c, q.roomId, q.walletAddress)
                 ELSE c)
      [] OTHER ->
            Returns(Catch(Respond(IF has(c.rooms, q.roomId) THEN DeleteIfEmpty(c, q.roomId)
                                  ELSE c)))

\* the other handlers make no more than one registry call
OneStep(q, c) ==
    LET o == Atomic(q, c.rooms)
    IN  Returns([rooms |-> o.rooms, res |-> o.res, thrown |-> FALSE])

HandlerStep(q, pc, c) ==
    CASE q.op = "create-room" -> CreateStep(q, pc, c)
      [] q.op = "join-room"   -> JoinStep(q, pc, c)
      [] q.op = "leave-room"  -> LeaveStep(q, pc, c)
      [] OTHER                -> OneStep(q, c)

\* req.body / req.params as the handler reads them
Received(q) ==
    [Blank(q.op) EXCEPT !.roomId = q.roomId, !.walletAddress = q.walletAddress,
                        !.callerWallet = q.callerWallet, !.calleeWallet = q.calleeWallet]

\* a mutant: a request is dispatched while another handler is suspended
CanDispatchAlways(run) == TRUE

\* the loop calls the next callback only when the stack is empty
CanDispatch(run) == DOMAIN run = {}

\* request i after a step with result r
Stepped(i, pc, r) ==
    /\ rooms' = r.c.rooms
    /\ IF r.fin
       THEN /\ resp' = [j \in DOMAIN resp \cup {i} |-> IF j = i THEN r.c.res ELSE resp[j]]
            /\ running' = [j \in DOMAIN running \ {i} |-> running[j]]
       ELSE /\ resp' = resp
            /\ running' = [j \in DOMAIN running \cup {i} |->
                              IF j = i THEN [pc |-> pc + 1, res |-> r.c.res,
                                             thrown |-> r.c.thrown]
                              ELSE running[j]]
    /\ UNCHANGED <<last, hist, lastStart, w1, w2, fwd, rev, pending, rooms0>>

\* a request served on its own, before any arrive together
Earlier ==
    /\ pending = <<>>
    /\ \E q \in EarlierRequests : rooms' = Atomic(q, rooms).rooms
    /\ UNCHANGED <<last, hist, lastStart, w1, w2, fwd, rev, loopVars>>

\* MaxPending requests arrive before the loop gets to any of them
Arrive ==
    /\ pending = <<>>
    /\ pending' \in [1..MaxPending -> LoopRequests]
    /\ queue' = 1..MaxPending
    /\ rooms0' = rooms
    /\ UNCHANGED <<rooms, last, hist, lastStart, w1, w2, fwd, rev, running, resp>>

\* the loop calls the handler of a waiting request, which runs its first step
Dispatch ==
    \E i \in queue :
        /\ CanDispatch(running)
        /\ queue' = queue \ {i}
        /\ \E r \in {HandlerStep(pending[i], 1, Begin(rooms, Received(pending[i])))} :
               Stepped(i, 1, r)

\* a handler on the stack runs its next step
Continue ==
    \E i \in DOMAIN running :
        /\ queue' = queue
        /\ \E r \in {HandlerStep(pending[i], running[i].pc,
                                 [rooms |-> rooms, res |-> running[i].res,
                                  thrown |-> running[i].thrown])} :
               Stepped(i, running[i].pc, r)

NextLoop ==
    \/ Earlier
    \/ Arrive
    \/ Dispatch
    \/ Continue

SpecLoop == Init /\ [][NextLoop]_vars

\* a handler on the stack runs on, and the loop gets to every waiting request
FairLoop == SpecLoop /\ WF_vars(Dispatch \/ Continue)

-----------------------------------------------------------------------------
(* Properties *)

Did(res, what) == what \in Range(res.trace)

NoDuplicates(arr) == \A i, j \in 1..Len(arr) : arr[i] = arr[j] => i = j

\* a join-room or get-room request that gets as far as the registry lookup
LooksUp(res, id) ==
    /\ res.roomId = id
    /\ \/ res.op = "get-room"
       \/ res.op = "join-room" /\ res.walletAddress # Missing

\* C1: a room id is in the registry exactly when a create-room drew it and no
\* leave-room has emptied its participants since the latest such create.
Inv_C1 ==
    /\ DOMAIN rooms \subseteq RoomIds
    /\ \A id \in RoomIds : id \in DOMAIN rooms <=> hist[id] = "live"

\* one id emptied and gone while another is still registered
Wit_C1 ==
    \E a, b \in RoomIds :
        /\ hist[a] = "emptied" /\ a \notin DOMAIN rooms
        /\ hist[b] = "live" /\ b \in DOMAIN rooms

\* C2: no registered room's participants list holds an identifier twice.
Inv_C2 == \A id \in DOMAIN rooms : NoDuplicates(rooms[id].participants)

\* the host joined its own two-member room again and nothing was pushed
Wit_C2 ==
    /\ last.op = "join-room" /\ last.status = 200
    /\ ~Did(last, "participants.push")
    /\ Len(rooms[last.roomId].participants) = 2
    /\ last.walletAddress = rooms[last.roomId].host

\* C3: once the only participant of a registered room has left, the room is
\* out of the registry, and until a create-room draws the id again every
\* get-room and every join-room that reaches the lookup for it answers 404.
Inv_C3 ==
    \A id \in RoomIds :
        hist[id] = "emptied" =>
            /\ id \notin DOMAIN rooms
            /\ LooksUp(last, id) =>
                  /\ last.status = 404
                  /\ last.error = "Room not found"
                  /\ last.token = <<>>

\* a get-room for an id whose last participant has left
Wit_C3 ==
    /\ last.op = "get-room"
    /\ hist[last.roomId] = "emptied"
    /\ last.status = 404

\* C4: join-room with both fields present and a roomId that is not registered
\* answers 404 'Room not found', leaves the registry as it was and issues no token.
Thm_C4 ==
    [][ ( /\ last'.op = "join-room"
          /\ last'.roomId # Missing
          /\ last'.walletAddress # Missing
          /\ last'.roomId \notin DOMAIN rooms )
        => ( /\ last'.status = 404
             /\ last'.error = "Room not found"
             /\ rooms' = rooms
             /\ last'.token = <<>>
             /\ ~Did(last', "generateToken") ) ]_vars

\* a join-room answered 404 while another room is registered
Wit_C4 ==
    /\ last.op = "join-room" /\ last.status = 404
    /\ last.roomId \notin DOMAIN rooms
    /\ DOMAIN rooms # {}

\* C5: right after create-room with host H returned room id R, the registry
\* holds under R a room with host H and participants exactly <<H>>.
Inv_C5 ==
    (last.op = "create-room" /\ last.status = 200) =>
        /\ last.resRoomId \in DOMAIN rooms
        /\ rooms[last.resRoomId].id = last.resRoomId
        /\ rooms[last.resRoomId].host = last.walletAddress
        /\ rooms[last.resRoomId].participants = <<last.walletAddress>>

\* a create-room that returned an id while the other id is registered too
Wit_C5 ==
    /\ last.op = "create-room" /\ last.status = 200
    /\ last.resRoomId \in RoomIds
    /\ Cardinality(DOMAIN rooms) = 2

\* C6: a join-room that directly follows a join-room of the same identifier to
\* the same registered room, or the create-room that made the identifier its
\* host, leaves the participants list as it was.
Thm_C6 ==
    [][ ( /\ last'.op = "join-room"
          /\ last'.walletAddress # Missing
          /\ last'.roomId \in DOMAIN rooms
          /\ last.walletAddress = last'.walletAddress
          /\ \/ last.op = "join-room" /\ last.roomId = last'.roomId
             \/ last.op = "create-room" /\ last.generated = last'.roomId )
        => ( /\ last'.roomId \in DOMAIN rooms'
             /\ rooms'[last'.roomId].participants = rooms[last'.roomId].participants ) ]_vars

\* a member that is not the host joined again: nothing pushed, still one entry
Wit_C6 ==
    /\ last.op = "join-room" /\ last.status = 200
    /\ ~Did(last, "participants.push")
    /\ last.walletAddress # rooms[last.roomId].host
    /\ rooms[last.roomId].participants = <<rooms[last.roomId].host, last.walletAddress>>

\* C7: leave-room always answers {success: true}; for a roomId that is not
\* registered, or an identifier that is not in the room, the registry is left
\* as it was; so is it by a leave-room that repeats the one before it.
Thm_C7 ==
    [][ last'.op = "leave-room" =>
          /\ last'.status = 200 /\ last'.success /\ last'.error = ""
          /\ ( IF last'.roomId \in DOMAIN rooms
               THEN ~includes(rooms[last'.roomId].participants, last'.walletAddress)
               ELSE TRUE ) => rooms' = rooms
          /\ ( /\ last.op = "leave-room"
               /\ last.roomId = last'.roomId
               /\ last.walletAddress = last'.walletAddress ) => rooms' = rooms ]_vars

\* a leave-room for an id no create-room ever drew, with another room registered
Wit_C7 ==
    /\ last.op = "leave-room" /\ last.status = 200
    /\ last.roomId \in RoomIds
    /\ hist[last.roomId] = "never"
    /\ DOMAIN rooms # {}

\* C8: createP2PRoomName(A, B) = createP2PRoomName(B, A) for every pair.
Inv_C8 == (fwd # <<>> /\ rev # <<>>) => fwd = rev

\* both orders derived for a pair the sort has to swap, one longer than 8
Wit_C8 ==
    /\ fwd # <<>> /\ rev # <<>>
    /\ StrLess(toLowerCase(w2), toLowerCase(w1))
    /\ Len(w1) > PrefixLen

\* C9: an answer-call returns the roomName the latest start-call of the same
\* caller/callee pair returned; the start-call token is bound to the caller
\* with isCaller true, the answer-call token to the callee with isCaller false.
Inv_C9 ==
    /\ (last.op = "start-call" /\ last.status = 200) =>
          /\ Len(last.token) = 1
          /\ last.token[1].identity = last.callerWallet
          /\ last.token[1].metadata.isCaller = "true"
          /\ last.token[1].grant.room = last.roomName
    /\ (last.op = "answer-call" /\ last.status = 200) =>
          /\ Len(last.token) = 1
          /\ last.token[1].identity = last.calleeWallet
          /\ last.token[1].metadata.isCaller = "false"
          /\ last.token[1].grant.room = last.roomName
          /\ ( /\ lastStart # <<>>
               /\ lastStart[1].callerWallet = last.callerWallet
               /\ lastStart[1].calleeWallet = last.calleeWallet )
             => last.roomName = lastStart[1].roomName

\* an answer-call for the pair of the latest start-call, caller sorting last
Wit_C9 ==
    /\ last.op = "answer-call" /\ last.status = 200
    /\ lastStart # <<>>
    /\ lastStart[1].callerWallet = last.callerWallet
    /\ lastStart[1].calleeWallet = last.calleeWallet
    /\ StrLess(toLowerCase(last.calleeWallet), toLowerCase(last.callerWallet))
    /\ DOMAIN rooms # {}

Before(res, a, b) ==
    \E i, j \in 1..Len(res.trace) : i < j /\ res.trace[i] = a /\ res.trace[j] = b

\* C10 as stated: create-room inserts no room until the host's token is issued.
Orig_C10 ==
    (last.op = "create-room" /\ Did(last, "rooms.set")) =>
        /\ Before(last, "generateToken", "rooms.set")
        /\ Len(last.token) = 1

\* C10, amended: create-room inserts the room before it calls generateToken,
\* and the room is in the registry whether or not the token is then issued.
Inv_C10 ==
    (last.op = "create-room" /\ Did(last, "generateToken")) =>
        /\ Before(last, "rooms.set", "generateToken")
        /\ ~Before(last, "generateToken", "rooms.set")
        /\ last.generated \in DOMAIN rooms
        /\ rooms[last.generated].participants = <<last.walletAddress>>

\* a create-room answered 500 whose room is registered all the same
Wit_C10 ==
    /\ last.op = "create-room" /\ last.status = 500
    /\ last.token = <<>>
    /\ last.generated \in DOMAIN rooms

\* generateToken was called and returned no token
IssuanceFailed(res) == Did(res, "generateToken") /\ res.token = <<>>

\* C11: when token issuance fails in create-room the answer is 500 with the
\* underlying message, no token and no room id are returned, and the room the
\* request inserted stays in the registry with participants <<host>>.
Inv_C11 ==
    (last.op = "create-room" /\ IssuanceFailed(last)) =>
        /\ last.status = 500
        /\ last.error = TokenError
        /\ ~last.success
        /\ last.resRoomId = Missing
        /\ last.generated \in DOMAIN rooms
        /\ rooms[last.generated] = [id |-> last.generated, host |-> last.walletAddress,
                                    participants |-> <<last.walletAddress>>]

\* a failed create-room left its room behind, next to another registered room
Wit_C11 ==
    /\ last.op = "create-room" /\ IssuanceFailed(last)
    /\ last.generated \in DOMAIN rooms
    /\ Cardinality(DOMAIN rooms) = 2

\* a required field of the request is absent
LacksField(res) ==
    \/ res.op = "create-room" /\ res.walletAddress = Missing
    \/ res.op = "join-room" /\ (res.roomId = Missing \/ res.walletAddress = Missing)
    \/ /\ res.op \in {"start-call", "answer-call"}
       /\ (res.callerWallet = Missing \/ res.calleeWallet = Missing)

\* C13: a request that lacks a required field answers 400, leaves the registry
\* as it was and issues no token; join-room does so whether or not the room
\* it names is registered.
Thm_C13 ==
    [][ LacksField(last') =>
          /\ last'.status = 400
          /\ last'.error # ""
          /\ ~last'.success
          /\ rooms' = rooms
          /\ last'.token = <<>>
          /\ last'.trace = <<>> ]_vars

\* a join-room without walletAddress for an unregistered id, answered 400
Wit_C13 ==
    /\ last.op = "join-room" /\ last.status = 400
    /\ last.walletAddress = Missing
    /\ last.roomId \in RoomIds \ DOMAIN rooms
    /\ DOMAIN rooms # {}

\* the registry calls a handler made
RegistryCalls == {"rooms.size", "rooms.get", "rooms.set", "rooms.delete"}

\* the changes a handler made to a registered room in place
RoomWrites == {"participants.push", "participants.filter"}

\* C14: start-call and answer-call, whatever their outcome, leave the registry
\* as it was and never touch it, and a health check that follows reports the
\* number of rooms registered before the call.
Thm_C14 ==
    [][ /\ last'.op \in {"start-call", "answer-call"} =>
             /\ rooms' = rooms
             /\ Range(last'.trace) \cap (RegistryCalls \cup RoomWrites) = {}
             /\ last'.status \in {200, 400, 500}
        /\ (last.op \in {"start-call", "answer-call"} /\ last'.op = "health") =>
             last'.activeRooms = <<Cardinality(DOMAIN rooms)>> ]_vars

\* an answer-call whose token issuance failed while rooms are registered
Wit_C14 ==
    /\ last.op = "answer-call" /\ last.status = 500
    /\ IssuanceFailed(last)
    /\ Cardinality(DOMAIN rooms) = 2

\* how many steps of the kinds in S the handler took
Count(res, S) == Cardinality({i \in 1..Len(res.trace) : res.trace[i] \in S})

\* C16 as stated: one request makes at most one registry read or write and at
\* most one token-issuance call.
Orig_C16 ==
    /\ Count(last, RegistryCalls \cup RoomWrites) <= 1
    /\ Count(last, {"generateToken"}) <= 1

\* C16, amended: one request makes at most one token-issuance call and at most
\* one registry lookup; join-room and leave-room also write the room they
\* looked up, and a leave-room that empties it calls rooms.delete on top: up
\* to three registry accesses, more than one only in join-room and leave-room.
Inv_C16 ==
    /\ Count(last, {"generateToken"}) <= 1
    /\ Count(last, {"rooms.size", "rooms.get"}) <= 1
    /\ Count(last, {"rooms.set", "rooms.delete"}) <= 1
    /\ Count(last, RoomWrites) <= 1
    /\ Count(last, RegistryCalls \cup RoomWrites) > 1 => last.op \in {"join-room", "leave-room"}
    /\ Did(last, "participants.push") => last.op = "join-room" /\ Did(last, "rooms.get")
    /\ Did(last, "rooms.delete") =>
          /\ last.op = "leave-room"
          /\ last.trace = <<"rooms.get", "participants.filter", "rooms.delete">>

\* a leave-room that emptied its room: lookup, list write and delete
Wit_C16 ==
    /\ last.op = "leave-room"
    /\ Did(last, "rooms.delete")
    /\ Count(last, RegistryCalls \cup RoomWrites) = 3

\* C17: between requests every registered room has at least one participant,
\* and the participantCount join-room and get-room report is at least 1.
Inv_C17 ==
    /\ \A id \in DOMAIN rooms : Len(rooms[id].participants) >= 1
    /\ last.room # <<>> => last.room[1].participantCount >= 1

\* a leave-room deleted the room it emptied while another room stays registered
Wit_C17 ==
    /\ last.op = "leave-room"
    /\ Did(last, "rooms.delete")
    /\ last.roomId \notin DOMAIN rooms
    /\ DOMAIN rooms # {}

\* C18 as stated: a create-room leaves every room already registered as it
\* was, and the number of registered rooms grows by exactly one.
Orig_C18 ==
    [][ (last'.op = "create-room" /\ last'.generated # Missing) =>
          /\ \A id \in DOMAIN rooms : id \in DOMAIN rooms' /\ rooms'[id] = rooms[id]
          /\ Cardinality(DOMAIN rooms') = Cardinality(DOMAIN rooms) + 1 ]_vars

\* C20: when token issuance fails in a join-room of an identifier not yet in
\* a registered room, the answer is 500 and the identifier is appended all the
\* same; a leave-room by the only other participant that follows leaves the
\* room registered, with the identifier as its one participant.
Thm_C20 ==
    [][ /\ ( /\ last'.op = "join-room"
             /\ IssuanceFailed(last')
             /\ last'.roomId \in DOMAIN rooms
             /\ ~includes(rooms[last'.roomId].participants, last'.walletAddress) )
           => ( /\ last'.status = 500
                /\ last'.error = TokenError
                /\ last'.roomId \in DOMAIN rooms'
                /\ rooms'[last'.roomId].participants =
                      Append(rooms[last'.roomId].participants, last'.walletAddress) )
        /\ ( /\ last.op = "join-room" /\ last.status = 500
             /\ Did(last, "participants.push")
             /\ last'.op = "leave-room" /\ last'.roomId = last.roomId
             /\ last.roomId \in DOMAIN rooms
             /\ rooms[last.roomId].participants = <<last'.walletAddress, last.walletAddress>> )
           => ( /\ last.roomId \in DOMAIN rooms'
                /\ rooms'[last.roomId].participants = <<last.walletAddress>>
                /\ ~Did(last', "rooms.delete") ) ]_vars

\* a join-room answered 500 whose identifier was pushed and is in the room
Wit_C20 ==
    /\ last.op = "join-room" /\ last.status = 500
    /\ Did(last, "participants.push")
    /\ last.roomId \in DOMAIN rooms
    /\ rooms[last.roomId].participants = <<rooms[last.roomId].host, last.walletAddress>>

\* C19: join-room and leave-room never change the host or id of a room that
\* stays registered, and register none; when the host leaves and others remain
\* the room stays, the others keep their order, and get-room reports the host
\* the registry holds, participant or not.
Thm_C19 ==
    [][ /\ last'.op \in {"join-room", "leave-room"} =>
             /\ DOMAIN rooms' \subseteq DOMAIN rooms
             /\ \A id \in DOMAIN rooms' :
                   rooms'[id].host = rooms[id].host /\ rooms'[id].id = rooms[id].id
        /\ ( /\ last'.op = "leave-room"
             /\ last'.roomId \in DOMAIN rooms
             /\ Range(rooms[last'.roomId].participants) \ {last'.walletAddress} # {} )
           => ( /\ last'.roomId \in DOMAIN rooms'
                /\ rooms'[last'.roomId].participants =
                      SelectSeq(rooms[last'.roomId].participants,
                                LAMBDA p : p # last'.walletAddress) )
        /\ (last'.op = "get-room" /\ last'.roomId \in DOMAIN rooms) =>
             /\ last'.status = 200
             /\ last'.room = <<[id |-> last'.roomId,
                                host |-> rooms[last'.roomId].host,
                                participantCount |-> Len(rooms[last'.roomId].participants)]>>
             /\ rooms'[last'.roomId].id = last'.roomId ]_vars

\* get-room reports a host that has left a room two others are still in
Wit_C19 ==
    /\ last.op = "get-room" /\ last.status = 200
    /\ Len(rooms[last.roomId].participants) = 2
    /\ last.room[1].host \notin Range(rooms[last.roomId].participants)

\* the orders in which the requests that arrived together can be served
Orders == {p \in [1..Len(pending) -> 1..Len(pending)] :
              \A i, j \in 1..Len(pending) : p[i] = p[j] => i = j}

\* the registry and the responses after serving the requests p[k], p[k+1], ...
\* one whole handler after the other, starting on registry reg
RECURSIVE SerialRun(_, _, _)
SerialRun(reg, p, k) ==
    IF k > Len(p) THEN [rooms |-> reg, resp |-> <<>>]
    ELSE LET o    == Atomic(pending[p[k]], reg)
             rest == SerialRun(o.rooms, p, k + 1)
         IN  [rooms |-> rest.rooms, resp |-> (p[k] :> o.res) @@ rest.resp]

\* requests arrived, each has been dispatched and no handler is on the stack
Quiet == pending # <<>> /\ queue = {} /\ DOMAIN running = {}

Serializable ==
    \E p \in Orders :
        LET s == SerialRun(rooms0, p, 1)
        IN  /\ s.rooms = rooms
            /\ \A i \in 1..Len(pending) : resp[i] = s.resp[i]

HalfUpdated(reg) == \E id \in DOMAIN reg : Len(reg[id].participants) = 0

\* C12: however the loop serves requests that are pending together, registry
\* and responses end up as in some serial execution of the same requests, and
\* no handler starts on, or reports, a registered room without participants.
Thm_C12 ==
    /\ [](Quiet => Serializable)
    /\ [](\A i \in DOMAIN resp :
             resp[i].room # <<>> => resp[i].room[1].participantCount >= 1)
    /\ [][queue' # queue => ~HalfUpdated(rooms)]_vars

\* the host's leave-room and another identifier's join-room arrived together
\* for a room with the host alone, and the join-room was served first
Wit_C12 ==
    /\ Quiet
    /\ Len(pending) >= 2
    /\ rooms0 # <<>> /\ rooms0[RoomA].participants = <<WalletA>>
    /\ pending[1].op = "leave-room" /\ pending[1].walletAddress = WalletA
    /\ pending[2].op = "join-room" /\ pending[2].walletAddress = WalletB
    /\ resp[2].status = 200
    /\ RoomA \in DOMAIN rooms

AllAnswered == pending # <<>> /\ DOMAIN resp = 1..Len(pending)

\* C15: every request is eventually answered, once, with status 200, 400, 404
\* or 500, and a token-issuance failure is answered 500 with its message.
Thm_C15 ==
    /\ (pending # <<>>) ~> AllAnswered
    /\ [](\A i \in DOMAIN resp :
             /\ resp[i].status \in {200, 400, 404, 500}
             /\ IssuanceFailed(resp[i]) =>
                   resp[i].status = 500 /\ resp[i].error = TokenError)
    /\ [][\A i \in DOMAIN resp : i \in DOMAIN resp' /\ resp'[i] = resp[i]]_vars

\* both requests answered, one 500 after a failed issuance and one 400
Wit_C15 ==
    /\ Len(pending) >= 2
    /\ AllAnswered
    /\ resp[1].status = 500 /\ IssuanceFailed(resp[1])
    /\ resp[2].status = 400

====
